---- MODULE Spec2Model ----
(***************************************************************************)
(* A model of the image pipeline of src/main.py: AIImageEnhancer's         *)
(* analyze_image_quality, auto_enhance_image and convert_image_format, as  *)
(* one request runs them.                                                  *)
(*                                                                         *)
(* Numbers.  Python floats are held in fixed point, in units of 1/Scale.   *)
(* Images.   An image is a record [mode, src, w, h, p1, p2, trns, kind,    *)
(*           ops].  src is the mode it was decoded in.  Its decoded pixel  *)
(*           at (x, y) is, for kind "checker", the band tuple p1 where     *)
(*           x + y is even and p2 where it is odd (p1 = p2 is a            *)
(*           single-colour image) and, for kind "ramp", p1 + x * p2 (a     *)
(*           horizontal gradient); trns is the transparent palette index   *)
(*           of a P image (-1: none).  ops is                              *)
(*           the sequence of transforms applied since decoding and mode    *)
(*           the mode they left it in.  The enhancement filters are kept   *)
(*           symbolic (name and factor); the statistics, the mode          *)
(*           conversions and the JPEG flattening are computed on the       *)
(*           pixel values.                                                 *)
(* Faults.   Every library call may raise; a call the image's mode makes   *)
(*           illegal always raises, and Image.open raises exactly on bytes *)
(*           that are no image.                                            *)
(* Files.    SpecRoutes follows several requests at once through the end   *)
(*           of convert_image (the download file's name, open, write,      *)
(*           response) and through download_file; a file is the sequence   *)
(*           of the pieces written to it, each piece naming the request    *)
(*           whose bytes it is.  Spec follows one request through the      *)
(*           pipeline and leaves the files alone.                          *)
(***************************************************************************)
EXTENDS Integers, Sequences, FiniteSets, TLC

\* ------------------------------------------------------------------ bounds
\* Side of the largest image (the smallest side that holds a noise tile).
MaxDim == 21

\* Requests in flight at once.
MaxClients == 2

\* Writes the encoded bytes of one request reach the file in.
MaxChunks == 2

\* ----------------------------------------------------------------- numbers
\* Fixed-point resolution of the floats: a float x is held as floor(Scale * x).
Scale == 100

Max2(a, b) == IF a >= b THEN a ELSE b
Min2(a, b) == IF a <= b THEN a ELSE b
Abs(a) == IF a < 0 THEN -a ELSE a

\* floor(Scale * x / n) for x >= 0, n > 0, without leaving 32 bits.
ScaledDiv(x, n) == Scale * (x \div n) + (Scale * (x % n)) \div n

RECURSIVE SqrtSearch(_, _, _)
SqrtSearch(x, lo, hi) ==
    IF lo >= hi THEN lo
    ELSE LET mid == (lo + hi + 1) \div 2
         IN IF mid * mid <= x THEN SqrtSearch(x, mid, hi)
            ELSE SqrtSearch(x, lo, mid - 1)

\* floor(sqrt(x)), x >= 0
ISqrt(x) == SqrtSearch(x, 0, Min2(x, 46340))

RECURSIVE SumRange(_, _, _)
SumRange(f, lo, hi) ==
    IF lo > hi THEN 0
    ELSE IF lo = hi THEN f[lo]
    ELSE LET mid == (lo + hi) \div 2
         IN SumRange(f, lo, mid) + SumRange(f, mid + 1, hi)

\* Sum of a sequence of integers.
SeqSum(f) == SumRange(f, 1, Len(f))

\* floor(Scale * mean) of a non-empty sequence of non-negative integers.
MeanOf(vals) == ScaledDiv(SeqSum(vals), Len(vals))

\* floor(Scale * variance) (population variance, to within one unit) of a
\* non-empty sequence of integers: E[x^2] - E[x]^2 with E[x] = q + r/n.
VarOf(vals) ==
    LET n  == Len(vals)
        s1 == Abs(SeqSum(vals))
        s2 == SeqSum([k \in 1..n |-> vals[k] * vals[k]])
        q  == s1 \div n
        r  == s1 % n
        t  == s2 - q * (s1 + r)
    IN Max2(0, ScaledDiv(t, n) - (Scale * r * r) \div (n * n))

\* floor(Scale * standard deviation), from the variance in units of 1/Scale.
StdOf(vals) == ISqrt(Scale * VarOf(vals))

\* ------------------------------------------------------------------ images
Modes == {"L", "RGB", "RGBA", "LA", "P"}

\* The two palette entries of the P images (index 0 and 1), as RGB.
Palette == <<(<<0, 0, 0>>), (<<255, 255, 255>>)>>

\* (w, h): one pixel, a few pixels, exactly one noise tile, one tile and a rest.
Sizes == {<<1, 1>>, <<3, 2>>, <<20, 20>>, <<MaxDim, MaxDim>>}

\* (p1, p2, trns, kind) per mode.
Patterns(mode) ==
    CASE mode = "L" ->
           {<<(<<0>>), (<<0>>), -1, "checker">>, <<(<<100>>), (<<100>>), -1, "checker">>,
            <<(<<128>>), (<<128>>), -1, "checker">>, <<(<<0>>), (<<255>>), -1, "checker">>,
            <<(<<128>>), (<<200>>), -1, "checker">>}
      [] mode = "RGB" ->
           {<<(<<0, 0, 0>>), (<<0, 0, 0>>), -1, "checker">>,
            <<(<<100, 100, 100>>), (<<100, 100, 100>>), -1, "checker">>,
            <<(<<128, 128, 128>>), (<<128, 128, 128>>), -1, "checker">>,
            <<(<<0, 0, 0>>), (<<255, 255, 255>>), -1, "checker">>,
            <<(<<128, 128, 128>>), (<<200, 30, 60>>), -1, "checker">>,
            <<(<<0, 0, 0>>), (<<5, 5, 5>>), -1, "ramp">>}
      [] mode = "RGBA" ->
           {<<(<<200, 30, 60, 0>>), (<<200, 30, 60, 0>>), -1, "checker">>,
            <<(<<200, 30, 60, 255>>), (<<200, 30, 60, 255>>), -1, "checker">>,
            <<(<<0, 0, 0, 128>>), (<<255, 255, 255, 0>>), -1, "checker">>,
            <<(<<10, 20, 30, 77>>), (<<10, 20, 30, 77>>), -1, "checker">>}
      [] mode = "LA" ->
           {<<(<<0, 0>>), (<<0, 0>>), -1, "checker">>,
            <<(<<100, 255>>), (<<100, 255>>), -1, "checker">>,
            <<(<<0, 128>>), (<<255, 255>>), -1, "checker">>}
      [] mode = "P" ->
           {<<(<<0>>), (<<0>>), -1, "checker">>, <<(<<0>>), (<<1>>), -1, "checker">>,
            <<(<<0>>), (<<1>>), 0, "checker">>, <<(<<0>>), (<<0>>), 0, "checker">>}

\* The decoded images a request may carry.
Images ==
    UNION {{[mode |-> m, src |-> m, w |-> s[1], h |-> s[2], p1 |-> p[1], p2 |-> p[2],
             trns |-> p[3], kind |-> p[4], ops |-> <<>>] : s \in Sizes, p \in Patterns(m)} : m \in Modes}

NoImage == [mode |-> "none", src |-> "none", w |-> 0, h |-> 0, p1 |-> <<>>,
            p2 |-> <<>>, trns |-> -1, kind |-> "none", ops |-> <<>>]

\* The decoded band tuple of pixel (x, y), 0 <= x < w, 0 <= y < h.
Pixel(img, x, y) ==
    IF img.kind = "ramp" THEN [b \in 1..Len(img.p1) |-> img.p1[b] + x * img.p2[b]]
    ELSE IF (x + y) % 2 = 0 THEN img.p1 ELSE img.p2

\* len(image.getbands())
NBands(img) ==
    CASE img.mode \in {"L", "P"} -> 1
      [] img.mode = "LA" -> 2
      [] img.mode \in {"RGB", "BGR"} -> 3
      [] img.mode = "RGBA" -> 4

\* np.array(image).shape: (h, w) for L and P, (h, w, bands) otherwise.
ArrayChannels(img) == IF img.mode \in {"L", "P"} THEN 0 ELSE NBands(img)

\* The values of band b over the whole image, row by row.
BandValues(img, b) ==
    [k \in 1..(img.w * img.h) |-> Pixel(img, (k - 1) % img.w, (k - 1) \div img.w)[b]]

\* ------------------------------------------------------- quality analysis
\* float(np.mean(stat.mean)): the mean of the per-band means.
BrightnessRaw(img) ==
    SeqSum([b \in 1..NBands(img) |-> MeanOf(BandValues(img, b))]) \div NBands(img)

\* float(np.mean(stat.stddev)): the mean of the per-band standard deviations.
ContrastRaw(img) ==
    SeqSum([b \in 1..NBands(img) |-> StdOf(BandValues(img, b))]) \div NBands(img)

\* max(0.0, min(1.0, raw / 255.0))
Normalize(raw) == Max2(0, Min2(Scale, raw \div 255))

\* The threshold taken inclusively.
IsDarkInclusive(brightness_raw) == brightness_raw <= 100 * Scale

IsDark(brightness_raw) == brightness_raw < 100 * Scale

IsLowContrast(contrast_raw) == contrast_raw < 40 * Scale

\* The analysis dict as first built, from the two raw statistics.
BaseAnalysis(brightness_raw, contrast_raw) ==
    [brightness |-> Normalize(brightness_raw),
     contrast |-> Normalize(contrast_raw),
     brightness_raw |-> brightness_raw,
     contrast_raw |-> contrast_raw,
     is_dark |-> IsDark(brightness_raw),
     is_low_contrast |-> IsLowContrast(contrast_raw),
     needs_sharpening |-> FALSE,
     needs_noise_reduction |-> FALSE,
     sharpness_score |-> 100 * Scale,
     noise_level |-> 10 * Scale]

\* The number of planes of `gray`: cv2.cvtColor(.., COLOR_RGB2GRAY) for three
\* or more channels, else the array itself (two planes for LA).
GrayPlanes(img) == IF ArrayChannels(img) = 2 THEN 2 ELSE 1

\* gray[y, x] (plane c): OpenCV's 8-bit RGB->gray weights in 14-bit fixed point.
Gray(img, c, x, y) ==
    LET p == Pixel(img, x, y)
    IN IF ArrayChannels(img) >= 3
       THEN (p[1] * 4899 + p[2] * 9617 + p[3] * 1868 + 8192) \div 16384
       ELSE p[c]

\* cv2's BORDER_REFLECT_101 index for i in -1..n.
Reflect101(i, n) ==
    IF n = 1 THEN 0
    ELSE IF i < 0 THEN -i
    ELSE IF i >= n THEN 2 * n - 2 - i
    ELSE i

\* cv2.Laplacian(gray, CV_64F) at (x, y): the 4-neighbour kernel, ksize 1.
Laplacian(img, c, x, y) ==
    Gray(img, c, Reflect101(x - 1, img.w), y) + Gray(img, c, Reflect101(x + 1, img.w), y)
    + Gray(img, c, x, Reflect101(y - 1, img.h)) + Gray(img, c, x, Reflect101(y + 1, img.h))
    - 4 * Gray(img, c, x, y)

\* float(cv2.Laplacian(gray, cv2.CV_64F).var())
LaplacianVar(img) ==
    LET n == img.w * img.h
    IN VarOf([k \in 1..(n * GrayPlanes(img)) |->
                Laplacian(img, ((k - 1) \div n) + 1, ((k - 1) % n) % img.w,
                          ((k - 1) % n) \div img.w)])

\* A clamp that lost its upper limit.
ClampLowOnly(lo, hi, v) == Max2(lo, v)

Clamp(lo, hi, v) == Max2(lo, Min2(hi, v))

\* The two sharpness fields stored from the Laplacian variance.
StoreSharpness(a, laplacian_var) ==
    [a EXCEPT !.needs_sharpening = laplacian_var < 100 * Scale,
              !.sharpness_score = Clamp(0, 1000 * Scale, laplacian_var)]

\* step = max(20, min(h // 10, w // 10))
NoiseStep(h, w) == Max2(20, Min2(h \div 10, w \div 10))

\* list(range(0, stop, step))
Range0(stop, step) ==
    [k \in 1..(IF stop <= 0 THEN 0 ELSE (stop + step - 1) \div step) |-> (k - 1) * step]

\* gray[i:i+step, j:j+step], row by row (numpy clips a slice at the edge).
Region(img, i, j, step) ==
    LET rw == Min2(j + step, img.w) - j
        rh == Min2(i + step, img.h) - i
    IN [k \in 1..(rw * rh) |-> Gray(img, 1, j + ((k - 1) % rw), i + ((k - 1) \div rw))]

\* noise_regions: float(np.std(region)) of every tile the two loops visit.
NoiseRegions(img) ==
    LET step == NoiseStep(img.h, img.w)
        is   == Range0(img.h - step, step)
        js   == Range0(img.w - step, step)
    IN [k \in 1..(Len(is) * Len(js)) |->
          StdOf(Region(img, is[((k - 1) \div Len(js)) + 1], js[((k - 1) % Len(js)) + 1], step))]

\* The two noise fields: stored only when some tile was measured.
StoreNoise(a, noise_regions) ==
    IF noise_regions = <<>> THEN a
    ELSE LET avg_noise == SeqSum(noise_regions) \div Len(noise_regions)
         IN [a EXCEPT !.needs_noise_reduction = avg_noise > 25 * Scale,
                      !.noise_level = Clamp(0, 100 * Scale, avg_noise)]

\* An update that leaves the sharpness fields as they were stored.
CvFallbackNoiseOnly(a) ==
    [a EXCEPT !.needs_noise_reduction = FALSE, !.noise_level = 10 * Scale]

\* analysis.update(..) of the OpenCV except block.
CvFallback(a) ==
    [a EXCEPT !.needs_sharpening = TRUE, !.needs_noise_reduction = FALSE,
              !.sharpness_score = 50 * Scale, !.noise_level = 10 * Scale]

\* The dict the top-level except block of analyze_image_quality returns.
SafeFallbackAnalysis ==
    [brightness |-> Scale \div 2,
     contrast |-> Scale \div 2,
     brightness_raw |-> 128 * Scale,
     contrast_raw |-> 50 * Scale,
     is_dark |-> FALSE,
     is_low_contrast |-> TRUE,
     needs_sharpening |-> TRUE,
     needs_noise_reduction |-> FALSE,
     sharpness_score |-> 50 * Scale,
     noise_level |-> 10 * Scale]

\* ------------------------------------------------------- enhancement rules
BrightnessLabel == "Auto Brightness Boost"
ContrastLabel == "Auto Contrast Enhancement"
SharpeningLabel == "Auto Sharpening"
ColorLabel == "Auto Color Enhancement"
NoiseLabel == "Auto Noise Reduction"
DefaultLabel == "Default Quality Boost"
FailedLabel == "Enhancement failed - returned original"

\* The rule deciding on the flag alone.
NeedsBrightnessFlagOnly(a) == a.is_dark

\* analysis['is_dark'] or analysis['brightness'] < 0.4
NeedsBrightness(a) == a.is_dark \/ a.brightness < (4 * Scale) \div 10

\* 1.3 if analysis['brightness'] < 0.3 else 1.15
BrightnessFactor(a) ==
    IF a.brightness < (3 * Scale) \div 10 THEN (130 * Scale) \div 100
    ELSE (115 * Scale) \div 100

\* analysis['is_low_contrast'] or analysis['contrast'] < 0.3
NeedsContrast(a) == a.is_low_contrast \/ a.contrast < (3 * Scale) \div 10

\* 1.4 if analysis['contrast'] < 0.2 else 1.2
ContrastFactor(a) ==
    IF a.contrast < (2 * Scale) \div 10 THEN (140 * Scale) \div 100
    ELSE (120 * Scale) \div 100

\* analysis['needs_sharpening'] or analysis['sharpness_score'] < 100
NeedsSharpness(a) == a.needs_sharpening \/ a.sharpness_score < 100 * Scale

\* 1.5 if analysis['sharpness_score'] < 50 else 1.2
SharpnessFactor(a) ==
    IF a.sharpness_score < 50 * Scale THEN (150 * Scale) \div 100
    ELSE (120 * Scale) \div 100

\* analysis['needs_noise_reduction']
NeedsNoiseReduction(a) == a.needs_noise_reduction

\* ImageEnhance.X(image).enhance(factor): a new image, the transform applied
\* to `image` (mode and size kept).
Enhance(image, name, factor) == [image EXCEPT !.ops = Append(@, <<name, factor>>)]

\* ImageEnhance blends and filters: illegal on a palette image (ValueError).
PilRejects(image) == image.mode = "P"

\* cv2.cvtColor(np.array(image), cv2.COLOR_RGB2BGR): needs 3 or 4 channels.
CvRejects(image) == ArrayChannels(image) \notin {3, 4}

\* The 3-channel BGR array of a 3- or 4-channel image (alpha is dropped).
ToBGR(image) == [image EXCEPT !.mode = "BGR", !.ops = Append(@, <<"cvtColor", 3>>)]

\* cv2.bilateralFilter(cv_image, 9, 75, 75)
Bilateral(array) == [array EXCEPT !.ops = Append(@, <<"bilateralFilter", 9, 75, 75>>)]

\* Image.fromarray(cv2.cvtColor(cv_image, cv2.COLOR_BGR2RGB))
FromBGR(array) == [array EXCEPT !.mode = "RGB", !.ops = Append(@, <<"cvtColor", 3>>)]

\* The safe_analysis dict of the fallback return of auto_enhance_image.
SafeAnalysis ==
    [brightness |-> Scale \div 2,
     contrast |-> Scale \div 2,
     brightness_raw |-> 128 * Scale,
     contrast_raw |-> 50 * Scale,
     sharpness_score |-> 50 * Scale,
     noise_level |-> 10 * Scale]

\* ------------------------------------------------------------------ faults
ExcTypes == {"ValueError", "MemoryError"}

\* What a library call may do: return ("ok") or raise; `forced` when its
\* argument makes it raise always.
Outcomes(forced) == IF forced THEN {"ValueError"} ELSE {"ok"} \cup ExcTypes

\* except (TypeError, ValueError, ZeroDivisionError) around the statistics
StatsCatches(type) == type \in {"TypeError", "ValueError", "ZeroDivisionError"}

\* except Exception as e (the top level of analyze_image_quality)
AnalyzeCatches(type) == TRUE

\* str(e) of a caught exception
Str(exc) == <<exc.type, exc.site>>

NoExc == [site |-> "", type |-> ""]

\* ----------------------------------------------------------------- request
RequestFormats == {"PNG", "JPEG", "jpeg", "JPG", "WEBP", "BMP", "TIFF"}

Qualities == {95, 40}

Urls == {"", "http://host/pic.png"}

\* str.upper() on the request's format strings
Upper(fmt) == IF fmt = "jpeg" THEN "JPEG" ELSE fmt

\* self.supported_formats
supported_formats == {"PNG", "JPEG", "JPG", "WEBP", "BMP"}

\* The bytes a download may deliver: an encoded image, or bytes no decoder opens.
ImageDatas ==
    {[img |-> i, decodable |-> TRUE] : i \in Images}
    \cup {[img |-> NoImage, decodable |-> FALSE]}

NoData == [img |-> NoImage, decodable |-> FALSE]

\* ------------------------------------------------------ the download files
Clients == 1..MaxClients

\* The image URLs of concurrent requests: two hosts with a picture of the same
\* base name, another picture, and a path without a name.
RouteUrls ==
    {"http://host/pic.png", "http://other/img/pic.jpg", "http://host/cat.png", "http://host/"}

RouteFormats == {"PNG", "JPEG"}

\* os.path.basename(urlparse(image_url).path) or "image"
OriginalName(url) ==
    CASE url = "http://host/pic.png" -> "pic.png"
      [] url = "http://other/img/pic.jpg" -> "pic.jpg"
      [] url = "http://host/cat.png" -> "cat.png"
      [] url = "http://host/" -> "image"

\* os.path.splitext(original_name)[0]
Splitext0(name) ==
    CASE name = "pic.png" -> "pic"
      [] name = "pic.jpg" -> "pic"
      [] name = "cat.png" -> "cat"
      [] name = "image" -> "image"

\* target_format.lower()
Lower(fmt) == CASE fmt = "PNG" -> "png" [] fmt = "JPEG" -> "jpeg"

\* f"ai_enhanced_{os.path.splitext(original_name)[0]}.{target_format.lower()}"
Filename(url, fmt) == <<"ai_enhanced_", Splitext0(OriginalName(url)), ".", Lower(fmt)>>

Filenames == {Filename(u, f) : u \in RouteUrls, f \in RouteFormats}

\* converted_data of a request: the bytes its own image encodes to, in the
\* pieces they are written in.
Bytes(url, fmt) == [k \in 1..MaxChunks |-> <<url, fmt, k>>]

\* A piece of a file no write has filled.
Hole == <<"", "", 0>>

\* write(2) of one piece at a descriptor's offset (in pieces): a file shorter
\* than the offset is filled up with a hole.
WriteAt(data, offset, piece) ==
    IF offset < Len(data) THEN [data EXCEPT ![offset + 1] = piece]
    ELSE data \o [k \in 1..(offset - Len(data)) |-> Hole] \o <<piece>>

NoFile == [exists |-> FALSE, data |-> <<>>]

NoSent == [status |-> 0, data |-> <<>>]

Idle == [pc |-> "idle", image_url |-> "", target_format |-> "", filename |-> <<>>,
         offset |-> 0, sent |-> NoSent]

VARIABLES
    pc,                    \* where the request is
    image_url, target_format, quality,   \* the request
    image_data,            \* the downloaded bytes
    pil_image, original_image,
    analysis,              \* the dict analyze_image_quality is building / returned
    applied_enhancements, enhanced_image, cv_image,
    e,                     \* the exception the outer handler of auto_enhance_image caught
    faulted,               \* the steps whose fault was caught and skipped
    returned,              \* what auto_enhance_image returned
    converted_data,        \* what convert_image_format returned
    response,              \* the route's error response
    tempdir,               \* the files of tempfile.gettempdir(), by name
    handlers               \* the requests in flight, each at its place in its route

request == <<image_url, target_format, quality>>
served == <<tempdir, handlers>>
enh == <<pil_image, original_image, applied_enhancements, enhanced_image, cv_image>>
vars == <<pc, image_url, target_format, quality, image_data, pil_image, original_image,
          analysis, applied_enhancements, enhanced_image, cv_image, e, faulted,
          returned, converted_data, response, tempdir, handlers>>

NoResponse == [status |-> 0, error |-> <<>>]

Init ==
    /\ pc = "validate"
    /\ image_url \in Urls
    /\ target_format \in RequestFormats
    /\ quality \in Qualities
    /\ image_data = NoData
    /\ pil_image = NoImage
    /\ original_image = NoImage
    /\ analysis = <<>>
    /\ applied_enhancements = <<>>
    /\ enhanced_image = NoImage
    /\ cv_image = NoImage
    /\ e = NoExc
    /\ faulted = {}
    /\ returned = <<>>
    /\ converted_data = <<>>
    /\ response = NoResponse
    /\ tempdir = [n \in Filenames |-> NoFile]
    /\ handlers = [c \in Clients |-> Idle]

\* convert_image: the validation of the request.
Validate ==
    /\ pc = "validate"
    /\ IF image_url = ""
       THEN /\ pc' = "rejected"
            /\ response' = [status |-> 400, error |-> <<"Image URL is required">>]
       ELSE IF Upper(target_format) \notin supported_formats
       THEN /\ pc' = "rejected"
            /\ response' = [status |-> 400, error |-> <<"Unsupported format">>]
       ELSE /\ pc' = "extract"
            /\ response' = response
    /\ UNCHANGED <<request, served, image_data, enh, analysis, e, faulted, returned, converted_data>>

\* convert_image: enhancer.extract_image_from_url(image_url).
Extract ==
    /\ pc = "extract"
    /\ \E o \in Outcomes(FALSE) :
         IF o = "ok"
         THEN /\ image_data' \in ImageDatas
              /\ pc' = "open"
              /\ response' = response
         ELSE /\ image_data' = image_data
              /\ pc' = "failed"
              /\ response' = [status |-> 500, error |-> <<"Failed to extract image: ", o>>]
    /\ UNCHANGED <<request, served, enh, analysis, e, faulted, returned, converted_data>>

\* Control reaches the outer except block of auto_enhance_image with `exc`.
ToExcept(site, type) ==
    /\ pc' = "except"
    /\ e' = [site |-> site, type |-> type]

\* What Image.open(io.BytesIO(image_data)) does: decided by the bytes.
OpenOutcomes(data) == IF data.decodable THEN {"ok"} ELSE {"UnidentifiedImageError"}

\* auto_enhance_image: Image.open(..) and pil_image.copy() (which loads the
\* pixel data, and may fault on bytes that opened).
Open ==
    /\ pc = "open"
    /\ \E o \in OpenOutcomes(image_data), c \in Outcomes(FALSE) :
         IF o # "ok"
         THEN /\ ToExcept("Image.open", o)
              /\ UNCHANGED <<pil_image, original_image>>
         ELSE IF c # "ok"
         THEN /\ ToExcept("copy", c)
              /\ pil_image' = image_data.img
              /\ UNCHANGED original_image
         ELSE /\ pil_image' = image_data.img
              /\ original_image' = image_data.img
              /\ pc' = "an_array"
              /\ e' = e
    /\ UNCHANGED <<request, served, image_data, analysis, applied_enhancements, enhanced_image,
                   cv_image, faulted, returned, converted_data, response>>

\* An exception of `type` at the top level of analyze_image_quality: the
\* safe fallback dict is returned (or the exception leaves the function).
AnalyzeFails(type) ==
    IF AnalyzeCatches(type)
    THEN /\ analysis' = SafeFallbackAnalysis
         /\ pc' = "begin_rules"
         /\ faulted' = faulted \cup {"analyze"}
         /\ e' = e
    ELSE /\ ToExcept("analyze", type)
         /\ UNCHANGED <<analysis, faulted>>

\* analyze_image_quality: np.array(image) and ImageStat.Stat(image).
AnArray ==
    /\ pc = "an_array"
    /\ \E o \in Outcomes(FALSE) :
         IF o = "ok"
         THEN /\ pc' = "an_stats"
              /\ UNCHANGED <<analysis, faulted, e>>
         ELSE AnalyzeFails(o)
    /\ UNCHANGED <<request, served, image_data, enh, returned, converted_data, response>>

\* analyze_image_quality: the raw statistics and the analysis dict.
AnStats ==
    /\ pc = "an_stats"
    /\ \E o \in Outcomes(FALSE) :
         IF o = "ok"
         THEN /\ analysis' = BaseAnalysis(BrightnessRaw(pil_image), ContrastRaw(pil_image))
              /\ pc' = "an_sharp"
              /\ UNCHANGED <<faulted, e>>
         ELSE IF StatsCatches(o)
         THEN /\ analysis' = BaseAnalysis(128 * Scale, 50 * Scale)
              /\ pc' = "an_sharp"
              /\ faulted' = faulted \cup {"stats"}
              /\ e' = e
         ELSE AnalyzeFails(o)
    /\ UNCHANGED <<request, served, image_data, enh, returned, converted_data, response>>

\* analyze_image_quality: the grayscale plane and the Laplacian variance.
AnSharp ==
    /\ pc = "an_sharp"
    /\ \E o \in Outcomes(FALSE) :
         IF o = "ok"
         THEN /\ analysis' = StoreSharpness(analysis, LaplacianVar(pil_image))
              /\ pc' = "an_noise"
              /\ faulted' = faulted
         ELSE /\ analysis' = CvFallback(analysis)
              /\ pc' = "begin_rules"
              /\ faulted' = faulted \cup {"cv_analysis"}
    /\ UNCHANGED <<request, served, image_data, enh, e, returned, converted_data, response>>

\* analyze_image_quality: h, w = gray.shape, the tiles, the noise fields.
AnNoise ==
    /\ pc = "an_noise"
    /\ \E o \in Outcomes(GrayPlanes(pil_image) # 1) :
         IF o = "ok"
         THEN /\ analysis' = StoreNoise(analysis, NoiseRegions(pil_image))
              /\ faulted' = faulted
         ELSE /\ analysis' = CvFallback(analysis)
              /\ faulted' = faulted \cup {"cv_analysis"}
    /\ pc' = "begin_rules"
    /\ UNCHANGED <<request, served, image_data, enh, e, returned, converted_data, response>>

\* Every rule reading the decoded image instead of the previous rule's output.
RuleInputOriginal == pil_image

\* The image every rule reads and replaces: ImageEnhance.X(enhanced_image).
RuleInput == enhanced_image

\* auto_enhance_image: applied_enhancements = [] and enhanced_image = pil_image.copy().
BeginRules ==
    /\ pc = "begin_rules"
    /\ applied_enhancements' = <<>>
    /\ \E o \in Outcomes(FALSE) :
         IF o = "ok"
         THEN /\ enhanced_image' = pil_image
              /\ pc' = "brightness"
              /\ e' = e
         ELSE /\ ToExcept("copy", o)
              /\ UNCHANGED enhanced_image
    /\ UNCHANGED <<request, served, image_data, pil_image, original_image, cv_image, analysis,
                   faulted, returned, converted_data, response>>

\* One unguarded rule (1-3): when `needed`, the transform and its label, a
\* fault going to the outer except block.
Rule(here, next, needed, name, factor, label) ==
    /\ pc = here
    /\ IF needed
       THEN \E o \in Outcomes(PilRejects(RuleInput)) :
              IF o = "ok"
              THEN /\ enhanced_image' = Enhance(RuleInput, name, factor)
                   /\ applied_enhancements' = Append(applied_enhancements, label)
                   /\ pc' = next
                   /\ e' = e
              ELSE /\ ToExcept(name, o)
                   /\ UNCHANGED <<enhanced_image, applied_enhancements>>
       ELSE /\ pc' = next
            /\ UNCHANGED <<enhanced_image, applied_enhancements, e>>
    /\ UNCHANGED <<request, served, image_data, pil_image, original_image, cv_image, analysis,
                   faulted, returned, converted_data, response>>

\* 1. BRIGHTNESS ENHANCEMENT
Brightness ==
    Rule("brightness", "contrast", NeedsBrightness(analysis), "Brightness",
         BrightnessFactor(analysis), BrightnessLabel)

\* 2. CONTRAST ENHANCEMENT
Contrast ==
    Rule("contrast", "sharpness", NeedsContrast(analysis), "Contrast",
         ContrastFactor(analysis), ContrastLabel)

\* 3. SHARPNESS ENHANCEMENT
Sharpness ==
    Rule("sharpness", "color", NeedsSharpness(analysis), "Sharpness",
         SharpnessFactor(analysis), SharpeningLabel)

\* 4. COLOR ENHANCEMENT: a fault is passed over.
Color ==
    /\ pc = "color"
    /\ \E o \in Outcomes(PilRejects(RuleInput)) :
         IF o = "ok"
         THEN /\ enhanced_image' = Enhance(RuleInput, "Color", (110 * Scale) \div 100)
              /\ applied_enhancements' = Append(applied_enhancements, ColorLabel)
              /\ faulted' = faulted
         ELSE /\ faulted' = faulted \cup {"color"}
              /\ UNCHANGED <<enhanced_image, applied_enhancements>>
    /\ pc' = "cv_to_bgr"
    /\ UNCHANGED <<request, served, image_data, pil_image, original_image, cv_image, analysis,
                   e, returned, converted_data, response>>

\* 5. cv_image = cv2.cvtColor(np.array(enhanced_image), cv2.COLOR_RGB2BGR)
CvToBgr ==
    /\ pc = "cv_to_bgr"
    /\ \E o \in Outcomes(CvRejects(RuleInput)) :
         IF o = "ok"
         THEN /\ cv_image' = ToBGR(RuleInput)
              /\ pc' = "cv_noise"
              /\ faulted' = faulted
         ELSE /\ pc' = "default"
              /\ faulted' = faulted \cup {"cv_to_bgr"}
              /\ UNCHANGED cv_image
    /\ UNCHANGED <<request, served, image_data, pil_image, original_image, enhanced_image,
                   applied_enhancements, analysis, e, returned, converted_data, response>>

\* 5. Noise Reduction: the bilateral filter, then the label.
CvNoise ==
    /\ pc = "cv_noise"
    /\ IF NeedsNoiseReduction(analysis)
       THEN \E o \in Outcomes(FALSE) :
              IF o = "ok"
              THEN /\ cv_image' = Bilateral(cv_image)
                   /\ applied_enhancements' = Append(applied_enhancements, NoiseLabel)
                   /\ pc' = "cv_to_rgb"
                   /\ faulted' = faulted
              ELSE /\ pc' = "default"
                   /\ faulted' = faulted \cup {"cv_noise"}
                   /\ UNCHANGED <<cv_image, applied_enhancements>>
       ELSE /\ pc' = "cv_to_rgb"
            /\ UNCHANGED <<cv_image, applied_enhancements, faulted>>
    /\ UNCHANGED <<request, served, image_data, pil_image, original_image, enhanced_image,
                   analysis, e, returned, converted_data, response>>

\* 5. enhanced_image = Image.fromarray(cv2.cvtColor(cv_image, cv2.COLOR_BGR2RGB))
CvToRgb ==
    /\ pc = "cv_to_rgb"
    /\ \E o \in Outcomes(FALSE) :
         IF o = "ok"
         THEN /\ enhanced_image' = FromBGR(cv_image)
              /\ faulted' = faulted
         ELSE /\ faulted' = faulted \cup {"cv_to_rgb"}
              /\ UNCHANGED enhanced_image
    /\ pc' = "default"
    /\ UNCHANGED <<request, served, image_data, pil_image, original_image, cv_image,
                   applied_enhancements, analysis, e, returned, converted_data, response>>

\* The test of the default boost inverted.
NeedsDefaultInverted(applied) == applied # <<>>

\* The default boost applied whatever the rules appended.
NeedsDefaultAlways(applied) == TRUE

\* Whether the default boost is due: if not applied_enhancements.
NeedsDefault(applied) == applied = <<>>

\* The default boost when no label was appended, and the return.
Default ==
    /\ pc = "default"
    /\ IF NeedsDefault(applied_enhancements)
       THEN \E o \in Outcomes(PilRejects(RuleInput)) :
              IF o = "ok"
              THEN LET boosted == Enhance(RuleInput, "Sharpness", (110 * Scale) \div 100)
                       labels  == Append(applied_enhancements, DefaultLabel)
                   IN /\ enhanced_image' = boosted
                      /\ applied_enhancements' = labels
                      /\ returned' = [image |-> boosted, labels |-> labels,
                                      analysis |-> analysis]
                      /\ pc' = "encode"
                      /\ e' = e
              ELSE /\ ToExcept("Sharpness", o)
                   /\ UNCHANGED <<enhanced_image, applied_enhancements, returned>>
       ELSE /\ returned' = [image |-> enhanced_image, labels |-> applied_enhancements,
                            analysis |-> analysis]
            /\ pc' = "encode"
            /\ UNCHANGED <<enhanced_image, applied_enhancements, e>>
    /\ UNCHANGED <<request, served, image_data, pil_image, original_image, cv_image, analysis,
                   faulted, converted_data, response>>

\* The terminal failure raised without the text of the caught exception.
ProcessingFailedBare(exc) == <<"Failed to process image: ", Str(NoExc)>>

\* The message of the exception the fallback raises.
ProcessingFailed(exc) == <<"Failed to process image: ", Str(exc)>>

\* The outer except block: the original image again, or the terminal failure
\* (which convert_image answers with status 500).
Except ==
    /\ pc = "except"
    /\ \E o \in OpenOutcomes(image_data) :
         IF o = "ok"
         THEN /\ original_image' = image_data.img
              /\ returned' = [image |-> image_data.img, labels |-> <<FailedLabel>>,
                              analysis |-> SafeAnalysis]
              /\ pc' = "encode"
              /\ response' = response
         ELSE /\ pc' = "failed"
              /\ response' = [status |-> 500, error |-> ProcessingFailed(e)]
              /\ UNCHANGED <<original_image, returned>>
    /\ UNCHANGED <<request, served, image_data, pil_image, enhanced_image, cv_image,
                   applied_enhancements, analysis, e, faulted, converted_data>>

\* ------------------------------------------------------------------ encoder
\* Pillow's DIV255 rounding of the 8-bit blend: (t + 128 + ((t + 128) >> 8)) >> 8.
Div255(t) == ((t + 128) + ((t + 128) \div 256)) \div 256

\* Paste.c, paste_mask_L: out = BLEND8(mask, out, in).
Blend8(mask, out, in) == Div255(out * (255 - mask) + in * mask)

\* image.convert('RGBA') of a palette image.
ConvertRGBA(image) ==
    [image EXCEPT !.mode = "RGBA", !.ops = Append(@, <<"convert_RGBA", 0>>)]

\* The mask of the paste: the alpha band of an RGBA image, else None.
PasteMask(image) == IF image.mode = "RGBA" THEN 1 ELSE 0

\* background.paste(image, mask=..) onto Image.new('RGB', size, (255, 255, 255))
PasteOnWhite(image, mask) ==
    [image EXCEPT !.mode = "RGB", !.ops = Append(@, <<"paste_on_white", mask>>)]

\* The transparency handling of convert_image_format.
Flatten(image) ==
    LET im == IF image.mode = "P" THEN ConvertRGBA(image) ELSE image
    IN PasteOnWhite(im, PasteMask(im))

\* The condition of the transparency handling.
NeedsFlatten(image, fmt) == Upper(fmt) = "JPEG" /\ image.mode \in {"RGBA", "LA", "P"}

\* save_kwargs (a key that is not passed: quality -1, method -1, optimize FALSE).
SaveKwargs(fmt, q) ==
    LET f == Upper(fmt)
    IN [format |-> f,
        quality |-> IF f \in {"JPEG", "JPG", "WEBP"} THEN q ELSE -1,
        optimize |-> f \in {"JPEG", "JPG", "PNG"},
        method |-> IF f = "WEBP" THEN 6 ELSE -1]

\* Image.save raises always: a format Pillow has no writer for (KeyError), or
\* a mode the writer cannot take.
SaveRejects(image, kwargs) ==
    \/ kwargs.format \notin {"PNG", "JPEG", "WEBP", "BMP"}
    \/ kwargs.format = "JPEG" /\ image.mode \in {"RGBA", "LA", "P"}
    \/ kwargs.format = "BMP" /\ image.mode = "LA"

\* The value of a decoded pixel after the mode conversions `ops` from the
\* k-th on (the enhancement filters are not evaluated).
RECURSIVE EvalOps(_, _, _, _)
EvalOps(px, trns, ops, k) ==
    IF k > Len(ops) THEN px
    ELSE LET op == ops[k]
             nx == CASE op[1] = "convert_RGBA" ->
                         Palette[px[1] + 1] \o <<(IF px[1] = trns THEN 0 ELSE 255)>>
                      [] op[1] = "paste_on_white" /\ op[2] = 1 ->
                         [b \in 1..3 |-> Blend8(px[4], 255, px[b])]
                      [] op[1] = "paste_on_white" /\ op[2] = 0 ->
                         IF Len(px) <= 2 THEN <<px[1], px[1], px[1]>> ELSE SubSeq(px, 1, 3)
                      [] op[1] = "cvtColor" -> SubSeq(px, 1, 3)
                      [] OTHER -> px
         IN EvalOps(nx, trns, ops, k + 1)

\* Whether every transform of the image is one EvalOps computes.
Evaluable(image) ==
    \A k \in 1..Len(image.ops) :
        image.ops[k][1] \in {"convert_RGBA", "paste_on_white", "cvtColor"}

\* The band tuple of pixel (x, y) of an evaluable image.
PixelNow(image, x, y) == EvalOps(Pixel(image, x, y), image.trns, image.ops, 1)

\* convert_image: enhancer.convert_image_format(enhanced_image, target_format, quality);
\* a fault is answered with status 500.
Encode ==
    /\ pc = "encode"
    /\ LET image  == returned.image
           kwargs == SaveKwargs(target_format, quality)
       IN \E f \in Outcomes(FALSE) :
            IF NeedsFlatten(image, target_format) /\ f # "ok"
            THEN /\ pc' = "failed"
                 /\ converted_data' = converted_data
                 /\ response' = [status |-> 500,
                                 error |-> <<"Failed to convert image: ", f>>]
            ELSE LET handed == IF NeedsFlatten(image, target_format)
                               THEN Flatten(image) ELSE image
                 IN \E o \in Outcomes(SaveRejects(handed, kwargs)) :
                      IF o = "ok"
                      THEN /\ converted_data' = [image |-> handed, kwargs |-> kwargs]
                           /\ pc' = "encoded"
                           /\ response' = response
                      ELSE /\ pc' = "failed"
                           /\ converted_data' = converted_data
                           /\ response' = [status |-> 500,
                                           error |-> <<"Failed to convert image: ", o>>]
    /\ UNCHANGED <<request, served, image_data, enh, analysis, e, faulted, returned>>

Next ==
    \/ Validate
    \/ Extract
    \/ Open
    \/ AnArray
    \/ AnStats
    \/ AnSharp
    \/ AnNoise
    \/ BeginRules
    \/ Brightness
    \/ Contrast
    \/ Sharpness
    \/ Color
    \/ CvToBgr
    \/ CvNoise
    \/ CvToRgb
    \/ Default
    \/ Except
    \/ Encode

Spec == Init /\ [][Next]_vars

\* ------------------------------------------- concurrent requests and downloads
\* The state of the one request the steps above follow, left alone here.
pipeline ==
    <<pc, image_url, target_format, quality, image_data, pil_image, original_image,
      analysis, applied_enhancements, enhanced_image, cv_image, e, faulted, returned,
      converted_data, response>>

\* No request is in its pipeline; the download directory is empty.
RoutesInit ==
    /\ pc = "rejected"
    /\ image_url = ""
    /\ target_format = "PNG"
    /\ quality = 95
    /\ image_data = NoData
    /\ pil_image = NoImage
    /\ original_image = NoImage
    /\ analysis = <<>>
    /\ applied_enhancements = <<>>
    /\ enhanced_image = NoImage
    /\ cv_image = NoImage
    /\ e = NoExc
    /\ faulted = {}
    /\ returned = <<>>
    /\ converted_data = <<>>
    /\ response = NoResponse
    /\ tempdir = [n \in Filenames |-> NoFile]
    /\ handlers = [c \in Clients |-> Idle]

\* convert_image of one request, up to its file name: the request is valid,
\* its image extracted, enhanced and encoded.
Convert(c) ==
    /\ handlers[c].pc = "idle"
    /\ \E url \in RouteUrls, fmt \in RouteFormats :
         handlers' = [handlers EXCEPT ![c] = [@ EXCEPT !.pc = "open",
                                                        !.image_url = url,
                                                        !.target_format = fmt,
                                                        !.filename = Filename(url, fmt)]]
    /\ UNCHANGED <<pipeline, tempdir>>

\* open(temp_path, 'wb'): the file is created, or truncated to nothing.
OpenTemp(c) ==
    /\ handlers[c].pc = "open"
    /\ tempdir' = [tempdir EXCEPT ![handlers[c].filename] = [exists |-> TRUE, data |-> <<>>]]
    /\ handlers' = [handlers EXCEPT ![c] = [@ EXCEPT !.pc = "write", !.offset = 0]]
    /\ UNCHANGED pipeline

\* f.write(converted_data): the next piece, at this descriptor's offset; the
\* file is closed after the last.
WriteTemp(c) ==
    /\ handlers[c].pc = "write"
    /\ LET h     == handlers[c]
           piece == Bytes(h.image_url, h.target_format)[h.offset + 1]
       IN /\ tempdir' = [tempdir EXCEPT ![h.filename] =
                            [exists |-> TRUE, data |-> WriteAt(@.data, h.offset, piece)]]
          /\ handlers' = [handlers EXCEPT ![c] =
                            [@ EXCEPT !.offset = h.offset + 1,
                                      !.pc = IF h.offset + 1 = MaxChunks
                                             THEN "respond" ELSE "write"]]
    /\ UNCHANGED pipeline

\* The preview and the response, which names the file.
Respond(c) ==
    /\ handlers[c].pc = "respond"
    /\ handlers' = [handlers EXCEPT ![c] = [@ EXCEPT !.pc = "responded"]]
    /\ UNCHANGED <<pipeline, tempdir>>

\* download_file for the name the client's response gave: the file as it is
\* now, or 404.
Download(c) ==
    /\ handlers[c].pc = "responded"
    /\ LET file == tempdir[handlers[c].filename]
       IN handlers' = [handlers EXCEPT ![c] =
                         [@ EXCEPT !.pc = "downloaded",
                                   !.sent = IF file.exists
                                            THEN [status |-> 200, data |-> file.data]
                                            ELSE [status |-> 404, data |-> <<>>]]]
    /\ UNCHANGED <<pipeline, tempdir>>

RoutesNext ==
    \/ \E c \in Clients : Convert(c)
    \/ \E c \in Clients : OpenTemp(c)
    \/ \E c \in Clients : WriteTemp(c)
    \/ \E c \in Clients : Respond(c)
    \/ \E c \in Clients : Download(c)

SpecRoutes == RoutesInit /\ [][RoutesNext]_vars

\* ------------------------------------------------------------------ claims
\* auto_enhance_image has returned (normally).
HasReturned == DOMAIN returned # {}

\* analyze_image_quality has built (or returned) its dict.
HasAnalysis == DOMAIN analysis # {}

\* The fields of a QualityMetrics record.
MetricFields ==
    {"brightness", "contrast", "brightness_raw", "contrast_raw", "is_dark",
     "is_low_contrast", "needs_sharpening", "needs_noise_reduction",
     "sharpness_score", "noise_level"}

InSeq(x, seq) == \E k \in 1..Len(seq) : seq[k] = x

\* The enhancement steps whose fault is caught and passed over.
SkippedSteps == {"color", "cv_to_bgr", "cv_noise", "cv_to_rgb"}

\* auto_enhance_image returned from its rule sequence, not from the fallback.
ReturnedByRules == HasReturned /\ e = NoExc

\* C1: whenever auto_enhance_image has returned, whichever steps succeeded or
\* faulted, the label list it returned is non-empty.
C1_LabelsNonEmpty == HasReturned => Len(returned.labels) >= 1

\* C1 witness: a return where no rule 1-5 left a label (the colour step
\* faulted) and only the default boost did.
C1_Witness ==
    /\ HasReturned
    /\ "color" \in faulted
    /\ returned.labels = <<DefaultLabel>>

\* C2: no exception leaves analyze_image_quality, and its dict always has the
\* ten fields, each within its range.
C2_AnalysisTotalAndBounded ==
    /\ e.site # "analyze"
    /\ HasAnalysis =>
         /\ DOMAIN analysis = MetricFields
         /\ analysis.brightness \in 0..Scale
         /\ analysis.contrast \in 0..Scale
         /\ analysis.brightness_raw \in 0..(255 * Scale)
         /\ analysis.contrast_raw \in 0..(255 * Scale)
         /\ analysis.sharpness_score \in 0..(1000 * Scale)
         /\ analysis.noise_level \in 0..(100 * Scale)

\* C2 witness: the analysis of an image whose Laplacian variance is above the
\* limit of the score has returned without a fault, the score at its limit.
C2_Witness ==
    /\ pc = "begin_rules"
    /\ faulted = {}
    /\ LaplacianVar(pil_image) > 1000 * Scale
    /\ analysis.sharpness_score = 1000 * Scale

\* C3 (as claimed): when the top level of analyze_image_quality failed, the
\* dict is the safe default with is_dark, is_low_contrast and
\* needs_noise_reduction all false.
C3_SafeDefaultAsClaimed ==
    (HasAnalysis /\ "analyze" \in faulted) =>
        analysis = [brightness |-> Scale \div 2,
                    contrast |-> Scale \div 2,
                    brightness_raw |-> 128 * Scale,
                    contrast_raw |-> 50 * Scale,
                    sharpness_score |-> 50 * Scale,
                    noise_level |-> 10 * Scale,
                    needs_sharpening |-> TRUE,
                    is_dark |-> FALSE,
                    is_low_contrast |-> FALSE,
                    needs_noise_reduction |-> FALSE]

\* C4: in every dict of analyze_image_quality, is_dark is true exactly when
\* brightness_raw is below 100 (false at 100).
C4_IsDarkIffBelow100 ==
    HasAnalysis => (analysis.is_dark <=> analysis.brightness_raw < 100 * Scale)

\* C4 witness: an image whose raw brightness is exactly 100 was analysed
\* without a fault.
C4_Witness ==
    /\ pc = "begin_rules"
    /\ faulted = {}
    /\ analysis.brightness_raw = 100 * Scale
    /\ ~analysis.is_dark

\* C5 (as claimed): when the rule sequence faulted and the original decodes
\* again, the return is the original image, the one failure label, and a
\* metrics record with every field present.
C5_FallbackAsClaimed ==
    (HasReturned /\ e # NoExc) =>
        /\ returned.image = image_data.img
        /\ returned.labels = <<FailedLabel>>
        /\ DOMAIN returned.analysis = MetricFields

\* auto_enhance_image raised (convert_image answered with its message).
EnhanceRaised == pc = "failed" /\ response.error[1] = "Failed to process image: "

\* C6: auto_enhance_image raises only when its rule sequence faulted and the
\* fallback could not reopen the original, the message carrying the text of
\* the fault the outer handler caught; otherwise it returns.
C6_TerminalFailureOnly ==
    /\ EnhanceRaised =>
         /\ e # NoExc
         /\ ~HasReturned
         /\ response.error[2] = Str(e)
    /\ pc \in {"encode", "encoded"} => HasReturned
    /\ (pc = "failed" /\ ~EnhanceRaised) =>
         \/ /\ response.error[1] = "Failed to extract image: "
            /\ e = NoExc
            /\ ~HasReturned
         \/ /\ response.error[1] = "Failed to convert image: "
            /\ HasReturned

\* C6 witness: bytes no decoder opens: the first open faulted, the fallback's
\* open faulted too, and the failure was raised with the first fault's text.
C6_Witness ==
    /\ EnhanceRaised
    /\ ~image_data.decodable
    /\ response.error = <<"Failed to process image: ",
                          <<"UnidentifiedImageError", "Image.open">>>>

HasOp(image, name) == \E k \in 1..Len(image.ops) : image.ops[k][1] = name

\* C7 (as claimed): a returned label list names noise reduction only with
\* the output of the noise-reduction step, and colour enhancement only with
\* the saturation boost applied; a fault of either step leaves the rule
\* sequence running.
C7_SkippedStepLabelAbsent ==
    /\ ReturnedByRules =>
         /\ InSeq(NoiseLabel, returned.labels) => HasOp(returned.image, "bilateralFilter")
         /\ InSeq(ColorLabel, returned.labels) => HasOp(returned.image, "Color")
    /\ (faulted \cap SkippedSteps # {} /\ e = NoExc) =>
         pc \in {"cv_to_bgr", "cv_noise", "cv_to_rgb", "default", "encode", "encoded", "failed"}

\* An image's pixel as (R, G, B, A), whatever its mode.
AsRGBA(image, px) ==
    CASE image.mode = "RGBA" -> px
      [] image.mode = "LA" -> <<px[1], px[1], px[1], px[2]>>
      [] image.mode = "P" -> Palette[px[1] + 1] \o <<(IF px[1] = image.trns THEN 0 ELSE 255)>>
      [] image.mode = "RGB" -> px \o <<255>>
      [] image.mode = "L" -> <<px[1], px[1], px[1], 255>>

\* The alpha-composite of (R, G, B, A) over opaque white, rounded to nearest.
OverWhite(rgba) ==
    [b \in 1..3 |-> (2 * (rgba[b] * rgba[4] + 255 * (255 - rgba[4])) + 255) \div 510]

\* The image the codec was handed is the composite of `image` over white.
IsCompositeOverWhite(handed, image) ==
    /\ handed.mode = "RGB"
    /\ Evaluable(image) =>
         \A x \in 0..(image.w - 1), y \in 0..(image.h - 1) :
             PixelNow(handed, x, y) = OverWhite(AsRGBA(image, PixelNow(image, x, y)))

\* C8 (as claimed): for JPEG, an RGBA, LA or P image reaches the codec as the
\* RGB alpha-composite of itself over opaque white.
C8_JpegFlattenAsClaimed ==
    (pc = "encoded" /\ Upper(target_format) = "JPEG"
       /\ returned.image.mode \in {"RGBA", "LA", "P"}) =>
        IsCompositeOverWhite(converted_data.image, returned.image)

\* The fixed order of the rules' labels.
RuleOrder ==
    <<BrightnessLabel, ContrastLabel, SharpeningLabel, ColorLabel, NoiseLabel, DefaultLabel>>

\* The place of a label in the fixed order (0: not a rule's label).
Place(label) ==
    IF InSeq(label, RuleOrder) THEN CHOOSE k \in 1..Len(RuleOrder) : RuleOrder[k] = label
    ELSE 0

\* A duplicate-free subsequence of the fixed order.
InRuleOrder(labels) ==
    /\ \A k \in 1..Len(labels) : Place(labels[k]) > 0
    /\ \A k \in 1..(Len(labels) - 1) : Place(labels[k]) < Place(labels[k + 1])

\* The transform a label stands for.
TransformOf(label) ==
    CASE label = BrightnessLabel -> "Brightness"
      [] label = ContrastLabel -> "Contrast"
      [] label = SharpeningLabel -> "Sharpness"
      [] label = ColorLabel -> "Color"
      [] label = NoiseLabel -> "bilateralFilter"
      [] label = DefaultLabel -> "Sharpness"
      [] OTHER -> "none"

IsRuleOp(op) == op[1] \in {"Brightness", "Contrast", "Sharpness", "Color", "bilateralFilter"}

\* The rule transforms an image went through, in the order applied.
Transforms(image) ==
    LET ops == SelectSeq(image.ops, IsRuleOp) IN [k \in 1..Len(ops) |-> ops[k][1]]

\* The image is the labelled transforms applied one on the other's output, in
\* the labels' order to the decoded image (the last of them, the noise
\* reduction, possibly not in the image: its output was dropped).
ChainedInOrder(image, labels) ==
    LET want == [k \in 1..Len(labels) |-> TransformOf(labels[k])]
        got  == Transforms(image)
    IN \/ got = want
       \/ /\ labels # <<>>
          /\ labels[Len(labels)] = NoiseLabel
          /\ got = SubSeq(want, 1, Len(want) - 1)

\* C9 (as claimed): whenever auto_enhance_image has returned, its labels are
\* a duplicate-free subsequence of the fixed order, each rule applied to the
\* output of the rule before.
C9_OrderAsClaimed ==
    HasReturned =>
        /\ InRuleOrder(returned.labels)
        /\ ChainedInOrder(returned.image, returned.labels)

\* C9 (amended): whenever auto_enhance_image has returned from its rule
\* sequence (not from the original-image fallback), its labels are a
\* duplicate-free subsequence of the fixed order, each rule applied to the
\* output of the rule before; the fallback returns the one failure label.
C9_OrderOfRules ==
    /\ ReturnedByRules =>
         /\ InRuleOrder(returned.labels)
         /\ ChainedInOrder(returned.image, returned.labels)
    /\ (HasReturned /\ e # NoExc) => returned.labels = <<FailedLabel>>

\* C9 witness: a return with the labels of rules 1 to 5, all applied.
C9_Witness ==
    /\ ReturnedByRules
    /\ returned.labels = <<BrightnessLabel, ContrastLabel, SharpeningLabel, ColorLabel,
                           NoiseLabel>>
    /\ Transforms(returned.image)
         = <<"Brightness", "Contrast", "Sharpness", "Color", "bilateralFilter">>

AllPixels(image, px) == image.kind = "checker" /\ image.p1 = px /\ image.p2 = px

\* C10: when no enhancement step faulted, each conditional label is present
\* exactly when the metrics computed before the first rule ask for it; an
\* all-black image analysed without a fault gets brightness and contrast, a
\* uniform mid-gray one sharpening and no noise reduction.
C10_LabelsFollowMetrics ==
    (ReturnedByRules /\ faulted \cap SkippedSteps = {}) =>
        LET a == returned.analysis
            l == returned.labels
        IN /\ a = analysis
           /\ InSeq(BrightnessLabel, l) <=> (a.is_dark \/ a.brightness * 10 < 4 * Scale)
           /\ InSeq(ContrastLabel, l) <=> (a.is_low_contrast \/ a.contrast * 10 < 3 * Scale)
           /\ InSeq(SharpeningLabel, l)
                <=> (a.needs_sharpening \/ a.sharpness_score < 100 * Scale)
           /\ InSeq(NoiseLabel, l) <=> a.needs_noise_reduction
           /\ (faulted = {} /\ AllPixels(pil_image, <<0, 0, 0>>)) =>
                InSeq(BrightnessLabel, l) /\ InSeq(ContrastLabel, l)
           /\ (faulted = {} /\ AllPixels(pil_image, <<128, 128, 128>>)) =>
                InSeq(SharpeningLabel, l) /\ ~InSeq(NoiseLabel, l)

\* C10 witness: an image that is not dark by its flag but below 0.4 in
\* brightness went through the rules without a fault and was brightened.
C10_Witness ==
    /\ ReturnedByRules
    /\ faulted = {}
    /\ ~returned.analysis.is_dark
    /\ InSeq(BrightnessLabel, returned.labels)

\* The labels of rules 1 to 5.
RuleLabels == {BrightnessLabel, ContrastLabel, SharpeningLabel, ColorLabel, NoiseLabel}

\* Some rule 1-5 appended a label to applied_enhancements.
RuleAppended == \E k \in 1..Len(applied_enhancements) : applied_enhancements[k] \in RuleLabels

\* Control went through rules 1 to 5 and came to the default boost.
ReachedDefault == cv_image # NoImage \/ "cv_to_bgr" \in faulted

\* C11 (as claimed): whenever auto_enhance_image has returned after rules 1
\* to 5 had their turn, the default label is in the returned list exactly
\* when no rule 1-5 appended a label, and is then its only element.
C11_DefaultAsClaimed ==
    (HasReturned /\ ReachedDefault) =>
        /\ InSeq(DefaultLabel, returned.labels) <=> ~RuleAppended
        /\ InSeq(DefaultLabel, returned.labels) => returned.labels = <<DefaultLabel>>

\* C11 (amended): whenever auto_enhance_image has returned from its rule
\* sequence, the default label is in the returned list exactly when no rule
\* 1-5 appended a label, and is then its only element; when the default boost
\* itself faults, the fallback returns the one failure label instead.
C11_DefaultOnRulePath ==
    /\ ReturnedByRules =>
         /\ returned.labels = applied_enhancements
         /\ InSeq(DefaultLabel, returned.labels) <=> ~RuleAppended
         /\ InSeq(DefaultLabel, returned.labels) => returned.labels = <<DefaultLabel>>
    /\ (HasReturned /\ e # NoExc) => ~InSeq(DefaultLabel, returned.labels)

\* C11 witness: the colour step and the conversion for OpenCV both faulted, no
\* rule left a label, and the return carries the default boost alone, the
\* image sharpened by 1.1.
C11_Witness ==
    /\ ReturnedByRules
    /\ {"color", "cv_to_bgr"} \subseteq faulted
    /\ returned.labels = <<DefaultLabel>>
    /\ returned.image.ops = <<(<<"Sharpness", (110 * Scale) \div 100>>)>>

\* The fields analyze_image_quality computes before its OpenCV part.
BaseFields ==
    {"brightness", "contrast", "brightness_raw", "contrast_raw", "is_dark", "is_low_contrast"}

\* The OpenCV part of analyze_image_quality faults in this step.
CvAnalysisFaults == "cv_analysis" \in faulted' /\ "cv_analysis" \notin faulted

\* C12: a fault anywhere in the OpenCV part of analyze_image_quality, also
\* after the sharpness fields were stored, leaves needs_sharpening true,
\* needs_noise_reduction false, sharpness_score 50 and noise_level 10, the
\* six brightness and contrast fields as computed before the fault; the
\* record is returned as it then is.
C12_CvFaultKeepsBase ==
    [][/\ CvAnalysisFaults =>
            /\ pc \in {"an_sharp", "an_noise"} /\ pc' = "begin_rules"
            /\ DOMAIN analysis' = MetricFields
            /\ analysis'.needs_sharpening = TRUE
            /\ analysis'.needs_noise_reduction = FALSE
            /\ analysis'.sharpness_score = 50 * Scale
            /\ analysis'.noise_level = 10 * Scale
            /\ \A f \in BaseFields : analysis'[f] = analysis[f]
       /\ ("cv_analysis" \in faulted) =>
            /\ analysis' = analysis
            /\ (returned' # returned /\ e = NoExc) => returned'.analysis = analysis]_vars

\* C12 witness: a two-band image went through the Laplacian, its sharpness
\* stored as not needing sharpening, and faulted at the unpacking of the
\* shape; the record holds the four defaults and the image's own statistics.
C12_Witness ==
    /\ pc = "begin_rules"
    /\ faulted = {"cv_analysis"}
    /\ pil_image.mode = "LA"
    /\ LaplacianVar(pil_image) >= 100 * Scale
    /\ analysis.needs_sharpening /\ analysis.sharpness_score = 50 * Scale
    /\ ~analysis.needs_noise_reduction /\ analysis.noise_level = 10 * Scale
    /\ analysis.brightness_raw = BrightnessRaw(pil_image)
    /\ analysis.contrast_raw = ContrastRaw(pil_image)

\* The origins, along a side of n pixels, of the tiles of `step` pixels that
\* lie entirely inside it: the multiples of step with origin + step <= n.
FullTileOrigins(n, step) == Range0(n - step + 1, step)

\* The standard deviation of every full tile of the image.
FullTileRegions(img) ==
    LET step == NoiseStep(img.h, img.w)
        is   == FullTileOrigins(img.h, step)
        js   == FullTileOrigins(img.w, step)
    IN [k \in 1..(Len(is) * Len(js)) |->
          StdOf(Region(img, is[((k - 1) \div Len(js)) + 1], js[((k - 1) % Len(js)) + 1], step))]

\* The noise fields of an average over the full tiles (the defaults when
\* there is none).
NoiseOfFullTiles(img) ==
    StoreNoise([needs_noise_reduction |-> FALSE, noise_level |-> 10 * Scale],
               FullTileRegions(img))

\* C13 (as claimed): an analysis without a fault has the noise fields of the
\* average over exactly the full tiles inside the image, and the defaults
\* (false, 10) when no full tile exists.
C13_FullTilesAsClaimed ==
    (pc = "begin_rules" /\ faulted = {}) =>
        /\ analysis.needs_noise_reduction = NoiseOfFullTiles(pil_image).needs_noise_reduction
        /\ analysis.noise_level = NoiseOfFullTiles(pil_image).noise_level

\* C14 (as claimed): under every interleaving of requests and downloads, the
\* download of the file a request's response named delivers exactly the
\* bytes that request encoded.
C14_DownloadServesOwnBytes ==
    \A c \in Clients :
        handlers[c].pc = "downloaded" =>
            handlers[c].sent = [status |-> 200,
                                data |-> Bytes(handlers[c].image_url,
                                               handlers[c].target_format)]

\* The image convert_image_format hands to the writer for a format.
Handed(image, fmt) == IF NeedsFlatten(image, fmt) THEN Flatten(image) ELSE image

\* C15 (as claimed): a request for the accepted alias JPG reaches the encoder
\* as a JPEG request does: the same flattening of an RGBA, LA or P image onto
\* white, the same quality, and a writer that takes it whenever it takes the
\* JPEG request.
C15_AliasAsClaimed ==
    (pc = "encode" /\ Upper(target_format) = "JPG") =>
        LET image == returned.image
        IN /\ Upper(target_format) \in supported_formats
           /\ Handed(image, target_format) = Handed(image, "JPEG")
           /\ SaveKwargs(target_format, quality).quality = SaveKwargs("JPEG", quality).quality
           /\ SaveRejects(Handed(image, target_format), SaveKwargs(target_format, quality))
                = SaveRejects(Handed(image, "JPEG"), SaveKwargs("JPEG", quality))

====
